---------------------------- MODULE Spec2Model ----------------------------
(* Model of main.py: the two relay endpoints POST /api/ask (ask_assistant)  *)
(* and POST /api/ask-stream (ask_assistant_stream, whose body is produced   *)
(* by the generator stream_assistant_response), run as tasks of one         *)
(* single-threaded asyncio event loop against the external assistant        *)
(* service.  Strings built by f-strings are modelled as sequences of their  *)
(* parts; an Event is modelled as the dict that json.dumps serialises.      *)
EXTENDS Integers, Sequences, FiniteSets, TLC

VARIABLES
    pc,          \* per request: position in the handler / generator
    endpoint,    \* per request: "ask", "ask-stream", or NoValue before arrival
    query,       \* per request: the UserQuery (its thread_id field)
    local,       \* per request: the local variables thread_id, run_id, run_status,
                 \*   messages (messages.data) and start_time of its live frame
    wake,        \* per request: time at which the pending sleep(1) is over
    events,      \* per request: the Events written to the response stream
    response,    \* per request: the HTTP outcome of the handler
    calls,       \* per request: the calls made to the external service
    now,         \* the clock (time.time())
    running      \* the task that holds the event-loop thread, or NoValue

vars == <<pc, endpoint, query, local, wake, events, response, calls, now, running>>

-----------------------------------------------------------------------------
(* Bounds of the model *)

MaxPolls == 3      \* run-status polls followed, over all requests together
MaxOverlapPolls == 1  \* the same, in the behaviours with two overlapping requests
MaxMsgs == 2       \* length of a message listing
MaxClock == 95     \* the clock is followed up to this time
LongWait == 30     \* a long delay between two polls of ask_assistant

(* Program constants *)

Timeout == 60      \* timeout = 60
PollInterval == 1  \* time.sleep(1) / asyncio.sleep(1)

Requests == {"r1", "r2"}
NoValue == "None"

-----------------------------------------------------------------------------
(* The external service's data, as this program sees it *)

ExistingThread == "thread_old"
SuppliedThreadIds == {NoValue, "", ExistingThread}
NewThreadId(r) == IF r = "r1" THEN "thread_1" ELSE "thread_2"
NewRunId(r) == IF r = "r1" THEN "run_1" ELSE "run_2"

NonTerminalStatuses == {"queued", "in_progress"}
FailedStatuses == {"failed", "cancelled", "expired"}
Statuses == NonTerminalStatuses \cup {"completed"} \cup FailedStatuses

TextBlock(v) == [type |-> "text", value |-> v]
ImageBlock == [type |-> "image_file", value |-> NoValue]

UserMessage == [role |-> "user", content |-> <<TextBlock("q")>>, run |-> NoValue]
AssistantMessage(c, origin) == [role |-> "assistant", content |-> c, run |-> origin]

\* Messages a listing may hold: the user's question, assistant messages of the
\* current run (no block yet, two text blocks, a non-text block)
\* and an assistant message left by an earlier run of the same conversation.
MessageValues ==
    {UserMessage}
    \cup {AssistantMessage(c, "current") :
            c \in {<< >>, <<TextBlock("b"), TextBlock("a")>>, <<ImageBlock>>}}
    \cup {AssistantMessage(<<TextBlock("old")>>, "earlier")}

SeqsUpTo(S, n) == UNION {[1..k -> S] : k \in 0..n}
Listings == SeqsUpTo(MessageValues, MaxMsgs)

UpstreamFault == [cls |-> "Exception", status_code |-> 0, detail |-> <<"upstream fault">>]


-----------------------------------------------------------------------------
(* Exceptions and their conversion to text *)

HTTPException(code, detail) == [cls |-> "HTTPException", status_code |-> code, detail |-> detail]
IndexError == [cls |-> "IndexError", status_code |-> 0, detail |-> <<"list index out of range">>]
AttributeError == [cls |-> "AttributeError", status_code |-> 0, detail |-> <<"object has no attribute 'text'">>]

CodeStr(code) == IF code = 504 THEN "504" ELSE IF code = 500 THEN "500" ELSE "200"

\* str(e): an HTTPException prints as "<status_code>: <detail>" (its __str__ in
\* the framework releases that serve the assistants API), any other exception as
\* its message.
Str(e) == IF e.cls = "HTTPException" THEN <<CodeStr(e.status_code), ": ">> \o e.detail ELSE e.detail

-----------------------------------------------------------------------------
(* Responses and Events *)

NoResponse == [status_code |-> 0, detail |-> << >>, response |-> NoValue,
               thread_id |-> NoValue, run_id |-> NoValue]
ErrorResponse(code, detail) == [status_code |-> code, detail |-> detail, response |-> NoValue,
                                thread_id |-> NoValue, run_id |-> NoValue]
AssistantResponse(text, tid, rid) == [status_code |-> 200, detail |-> << >>, response |-> text,
                                      thread_id |-> tid, run_id |-> rid]
StreamingResponse == [status_code |-> 200, detail |-> << >>, response |-> NoValue,
                      thread_id |-> NoValue, run_id |-> NoValue]

Event(type, content, tid, rid) == [type |-> type, content |-> content, thread_id |-> tid, run_id |-> rid]

\* except Exception as e: raise HTTPException(status_code=500, detail=str(e))
HandlerExcept(e) == ErrorResponse(500, Str(e))

\* StreamExcept without the fault description
StreamExceptBare(e) == <<Event("error", << >>, NoValue, NoValue)>>

\* except Exception as e: a stream of the single Event {"type": "error", "content": str(e)}
StreamExcept(e) == <<Event("error", Str(e), NoValue, NoValue)>>

-----------------------------------------------------------------------------
(* Reading the text out of a message listing *)

\* Falsy as "thread_id is None": an empty handle counts as a handle
FalsyNoneOnly(tid) == tid = NoValue

\* Falsy as a test that ignores the supplied handle
FalsyAlways(tid) == TRUE

\* not thread_id
Falsy(tid) == tid = NoValue \/ tid = ""

\* index of the first assistant-role message of the listing, 0 when there is none
FirstAssistant(data) ==
    IF \E i \in 1..Len(data) : data[i].role = "assistant"
    THEN CHOOSE i \in 1..Len(data) :
            /\ data[i].role = "assistant"
            /\ \A j \in 1..(i-1) : data[j].role # "assistant"
    ELSE 0

\* CompletedEvent with the placeholder done Event where no assistant message is found
CompletedEventPlaceholder(data, tid, rid) ==
    LET i == FirstAssistant(data) IN
    IF i = 0 THEN Event("done", <<"No content in assistant response">>, tid, rid)
    ELSE IF Len(data[i].content) > 0
         THEN IF data[i].content[1].type = "text"
              THEN Event("done", <<data[i].content[1].value>>, tid, rid)
              ELSE Event("error", <<"Error extracting content: ">> \o Str(AttributeError),
                         NoValue, NoValue)
         ELSE Event("done", <<"No content in assistant response">>, tid, rid)

\* CompletedEvent reading the value of the first block whatever its type
CompletedEventAnyBlock(data, tid, rid) ==
    LET i == FirstAssistant(data) IN
    IF i = 0 THEN Event("error", <<"No assistant response found">>, NoValue, NoValue)
    ELSE IF Len(data[i].content) > 0
         THEN Event("done", <<data[i].content[1].value>>, tid, rid)
         ELSE Event("done", <<"No content in assistant response">>, tid, rid)

\* the Event the generator yields once the run is completed
CompletedEvent(data, tid, rid) ==
    LET i == FirstAssistant(data) IN
    IF i = 0 THEN Event("error", <<"No assistant response found">>, NoValue, NoValue)
    ELSE IF Len(data[i].content) > 0
         THEN IF data[i].content[1].type = "text"
              THEN Event("done", <<data[i].content[1].value>>, tid, rid)
              ELSE Event("error", <<"Error extracting content: ">> \o Str(AttributeError),
                         NoValue, NoValue)
         ELSE Event("done", <<"No content in assistant response">>, tid, rid)

\* UpdateEvents without the break: an update for every assistant-role message with text
UpdateEventsEvery(data) ==
    LET readable == SelectSeq(data, LAMBDA m : /\ m.role = "assistant"
                                               /\ Len(m.content) > 0
                                               /\ m.content[1].type = "text")
    IN  [k \in 1..Len(readable) |-> Event("update", <<readable[k].content[1].value>>, NoValue, NoValue)]

\* the Events (none or one) the generator yields in a cycle that sees in_progress
UpdateEvents(data) ==
    LET i == FirstAssistant(data) IN
    IF i = 0 THEN << >>
    ELSE IF Len(data[i].content) > 0 /\ data[i].content[1].type = "text"
         THEN <<Event("update", <<data[i].content[1].value>>, NoValue, NoValue)>>
         ELSE << >>

\* AskOutcome reading the last assistant-role message of the listing, not the first
AskOutcomeLastAssistant(data, tid, rid) ==
    LET assistants == {i \in 1..Len(data) : data[i].role = "assistant"}
        i == IF assistants = {} THEN 0
             ELSE CHOOSE k \in assistants : \A j \in assistants : j <= k
    IN
    IF Len(data) = 0
    THEN HandlerExcept(HTTPException(500, <<"No response from assistant">>))
    ELSE IF i = 0
    THEN HandlerExcept(HTTPException(500, <<"No assistant response found">>))
    ELSE IF Len(data[i].content) = 0 THEN HandlerExcept(IndexError)
    ELSE IF data[i].content[1].type # "text" THEN HandlerExcept(AttributeError)
    ELSE AssistantResponse(data[i].content[1].value, tid, rid)

\* AskOutcome without the test of the role: the first message of the listing is read
AskOutcomeAnyRole(data, tid, rid) ==
    IF Len(data) = 0
    THEN HandlerExcept(HTTPException(500, <<"No response from assistant">>))
    ELSE IF Len(data[1].content) = 0 THEN HandlerExcept(IndexError)
    ELSE IF data[1].content[1].type # "text" THEN HandlerExcept(AttributeError)
    ELSE AssistantResponse(data[1].content[1].value, tid, rid)

\* what ask_assistant answers once the run is completed and the listing fetched
AskOutcome(data, tid, rid) ==
    LET i == FirstAssistant(data) IN
    IF Len(data) = 0
    THEN HandlerExcept(HTTPException(500, <<"No response from assistant">>))
    ELSE IF i = 0
    THEN HandlerExcept(HTTPException(500, <<"No assistant response found">>))
    ELSE IF Len(data[i].content) = 0 THEN HandlerExcept(IndexError)
    ELSE IF data[i].content[1].type # "text" THEN HandlerExcept(AttributeError)
    ELSE AssistantResponse(data[i].content[1].value, tid, rid)

-----------------------------------------------------------------------------
(* Bookkeeping *)

Call(op, tid, rid, result) == [op |-> op, thread |-> tid, run |-> rid, result |-> result]
Polls(r) == SelectSeq(calls[r], LAMBDA c : c.op = "runs.retrieve")
TotalPolls == Len(Polls("r1")) + Len(Polls("r2"))
InFlight(r) == pc[r] \notin {"idle", "done", "closed", "aborted"}

\* how many polls are followed: fewer once a second request is being served
PollBudget == IF pc["r2"] = "idle" THEN MaxPolls ELSE MaxOverlapPolls

\* Requests that do not overlap share nothing, so a second request is followed
\* only when it arrives while the first is being served.
Admitted(r) == r = "r1" \/ InFlight("r1")

\* the locals of a frame that does not exist (before the call, after its return)
NoFrame == [thread_id |-> NoValue, run_id |-> NoValue, run_status |-> NoValue,
            messages |-> << >>, start_time |-> 0]

PcValues == {"idle", "s_thread", "s_message", "s_run", "g_start", "g_sleeping",
             "g_poll", "g_status", "g_yield_terminal", "g_yield_update",
             "g_wait", "closed", "aborted", "a_thread", "a_message", "a_run",
             "a_poll", "a_sleeping", "a_list", "a_extract", "done"}

TypeOK ==
    /\ pc \in [Requests -> PcValues]
    /\ endpoint \in [Requests -> {NoValue, "ask", "ask-stream"}]
    /\ running \in Requests \cup {NoValue}
    /\ now \in 0..MaxClock
    /\ \A r \in Requests : local[r].messages \in Listings

Init ==
    /\ pc = [r \in Requests |-> "idle"]
    /\ endpoint = [r \in Requests |-> NoValue]
    /\ query = [r \in Requests |-> [thread_id |-> NoValue]]
    /\ local = [r \in Requests |-> NoFrame]
    /\ wake = [r \in Requests |-> 0]
    /\ events = [r \in Requests |-> << >>]
    /\ response = [r \in Requests |-> NoResponse]
    /\ calls = [r \in Requests |-> << >>]
    /\ now = 0
    /\ running = NoValue

-----------------------------------------------------------------------------
(* POST /api/ask-stream: ask_assistant_stream *)

\* the except branch of ask_assistant_stream: the response is a one-Event stream
StreamSetupFault(r, call) ==
    /\ calls' = [calls EXCEPT ![r] = Append(@, call)]
    /\ events' = [events EXCEPT ![r] = StreamExcept(UpstreamFault)]
    /\ response' = [response EXCEPT ![r] = StreamingResponse]
    /\ local' = [local EXCEPT ![r] = NoFrame]
    /\ pc' = [pc EXCEPT ![r] = "closed"]
    /\ running' = NoValue

\* a request arrives at /api/ask-stream and its handler starts: thread_id = query.thread_id
StreamRequest(r, tid) ==
    /\ pc[r] = "idle"
    /\ Admitted(r)
    /\ running = NoValue
    /\ pc' = [pc EXCEPT ![r] = "s_thread"]
    /\ endpoint' = [endpoint EXCEPT ![r] = "ask-stream"]
    /\ query' = [query EXCEPT ![r] = [thread_id |-> tid]]
    /\ local' = [local EXCEPT ![r].thread_id = tid]
    /\ running' = r
    /\ UNCHANGED <<wake, events, response, calls, now>>

\* if not thread_id: thread = client.beta.threads.create(); thread_id = thread.id
StreamThread(r) ==
    /\ pc[r] = "s_thread"
    /\ running = r
    /\ \/ /\ Falsy(local[r].thread_id)
          /\ local' = [local EXCEPT ![r].thread_id = NewThreadId(r)]
          /\ calls' = [calls EXCEPT ![r] = Append(@, Call("threads.create", NoValue, NoValue, NewThreadId(r)))]
          /\ pc' = [pc EXCEPT ![r] = "s_message"]
          /\ UNCHANGED <<events, response, running>>
       \/ /\ Falsy(local[r].thread_id)
          /\ StreamSetupFault(r, Call("threads.create", NoValue, NoValue, "fault"))
       \/ /\ ~Falsy(local[r].thread_id)
          /\ pc' = [pc EXCEPT ![r] = "s_message"]
          /\ UNCHANGED <<local, calls, events, response, running>>
    /\ UNCHANGED <<endpoint, query, wake, now>>

\* client.beta.threads.messages.create(thread_id=thread_id, role="user", content=query.question)
StreamMessage(r) ==
    /\ pc[r] = "s_message"
    /\ running = r
    /\ \/ /\ calls' = [calls EXCEPT ![r] = Append(@, Call("messages.create", local[r].thread_id, NoValue, "ok"))]
          /\ pc' = [pc EXCEPT ![r] = "s_run"]
          /\ UNCHANGED <<local, events, response, running>>
       \/ StreamSetupFault(r, Call("messages.create", local[r].thread_id, NoValue, "fault"))
    /\ UNCHANGED <<endpoint, query, wake, now>>

\* run = client.beta.threads.runs.create(...); return StreamingResponse(stream_assistant_response(...))
StreamRun(r) ==
    /\ pc[r] = "s_run"
    /\ running = r
    /\ \/ /\ calls' = [calls EXCEPT ![r] = Append(@, Call("runs.create", local[r].thread_id, NoValue, NewRunId(r)))]
          /\ local' = [local EXCEPT ![r].run_id = NewRunId(r)]
          /\ response' = [response EXCEPT ![r] = StreamingResponse]
          /\ pc' = [pc EXCEPT ![r] = "g_start"]
          /\ running' = NoValue
          /\ UNCHANGED events
       \/ StreamSetupFault(r, Call("runs.create", local[r].thread_id, NoValue, "fault"))
    /\ UNCHANGED <<endpoint, query, wake, now>>

-----------------------------------------------------------------------------
(* stream_assistant_response: the generator behind the streaming response *)

\* a service call of the generator raises: nothing catches it, the generator
\* ends with the exception and the stream breaks off
GenFault(r, call) ==
    /\ calls' = [calls EXCEPT ![r] = Append(@, call)]
    /\ local' = [local EXCEPT ![r] = NoFrame]
    /\ pc' = [pc EXCEPT ![r] = "aborted"]
    /\ running' = NoValue

\* await asyncio.sleep(1), the initial delay
GenInitialSleep(r) ==
    /\ pc[r] = "g_start"
    /\ running = NoValue
    /\ wake' = [wake EXCEPT ![r] = now + PollInterval]
    /\ pc' = [pc EXCEPT ![r] = "g_sleeping"]
    /\ UNCHANGED <<endpoint, query, local, events, response, calls, now, running>>

\* the sleep is over and the event loop resumes the generator
GenWake(r) ==
    /\ pc[r] = "g_sleeping"
    /\ running = NoValue
    /\ now >= wake[r]
    /\ pc' = [pc EXCEPT ![r] = "g_poll"]
    /\ running' = r
    /\ UNCHANGED <<endpoint, query, local, wake, events, response, calls, now>>

\* run_status = client.beta.threads.runs.retrieve(thread_id=thread_id, run_id=run_id)
GenPoll(r) ==
    /\ pc[r] = "g_poll"
    /\ running = r
    /\ TotalPolls < PollBudget
    /\ \/ \E s \in Statuses :
            /\ local' = [local EXCEPT ![r].run_status = s]
            /\ calls' = [calls EXCEPT ![r] = Append(@, Call("runs.retrieve", local[r].thread_id, local[r].run_id, s))]
            /\ pc' = [pc EXCEPT ![r] = "g_status"]
            /\ UNCHANGED running
       \/ GenFault(r, Call("runs.retrieve", local[r].thread_id, local[r].run_id, "fault"))
    /\ UNCHANGED <<endpoint, query, wake, events, response, now>>

\* if run_status.status == "completed": list the messages, yield the terminal Event
GenCompleted(r) ==
    /\ pc[r] = "g_status"
    /\ running = r
    /\ local[r].run_status = "completed"
    /\ \/ \E data \in Listings :
            /\ local' = [local EXCEPT ![r].messages = data]
            /\ calls' = [calls EXCEPT ![r] = Append(@, Call("messages.list", local[r].thread_id, NoValue, "ok"))]
            /\ events' = [events EXCEPT ![r] = Append(@, CompletedEvent(data, local[r].thread_id, local[r].run_id))]
            /\ pc' = [pc EXCEPT ![r] = "g_yield_terminal"]
            /\ running' = NoValue
       \/ /\ GenFault(r, Call("messages.list", local[r].thread_id, NoValue, "fault"))
          /\ UNCHANGED events
    /\ UNCHANGED <<endpoint, query, wake, response, now>>

\* GenFailed without the break: the loop goes on after the error Event
GenFailedNoBreak(r) ==
    /\ pc[r] = "g_status"
    /\ running = r
    /\ local[r].run_status \in FailedStatuses
    /\ events' = [events EXCEPT ![r] = Append(@,
                    Event("error", <<"Run failed with status: ", local[r].run_status>>, NoValue, NoValue))]
    /\ pc' = [pc EXCEPT ![r] = "g_yield_update"]
    /\ running' = NoValue
    /\ UNCHANGED <<endpoint, query, local, wake, response, calls, now>>

\* elif run_status.status in ["failed", "cancelled", "expired"]: yield an error Event
GenFailed(r) ==
    /\ pc[r] = "g_status"
    /\ running = r
    /\ local[r].run_status \in FailedStatuses
    /\ events' = [events EXCEPT ![r] = Append(@,
                    Event("error", <<"Run failed with status: ", local[r].run_status>>, NoValue, NoValue))]
    /\ pc' = [pc EXCEPT ![r] = "g_yield_terminal"]
    /\ running' = NoValue
    /\ UNCHANGED <<endpoint, query, local, wake, response, calls, now>>

\* the generator is resumed after its terminal yield: break, the stream closes
GenBreak(r) ==
    /\ pc[r] = "g_yield_terminal"
    /\ running = NoValue
    /\ pc' = [pc EXCEPT ![r] = "closed"]
    /\ local' = [local EXCEPT ![r] = NoFrame]
    /\ UNCHANGED <<endpoint, query, wake, events, response, calls, now, running>>

\* if run_status.status == "in_progress": list the messages, yield an update if there is text
GenInProgress(r) ==
    /\ pc[r] = "g_status"
    /\ running = r
    /\ local[r].run_status = "in_progress"
    /\ \/ \E data \in Listings :
            /\ local' = [local EXCEPT ![r].messages = data]
            /\ calls' = [calls EXCEPT ![r] = Append(@, Call("messages.list", local[r].thread_id, NoValue, "ok"))]
            /\ events' = [events EXCEPT ![r] = @ \o UpdateEvents(data)]
            /\ IF UpdateEvents(data) # << >>
               THEN pc' = [pc EXCEPT ![r] = "g_yield_update"] /\ running' = NoValue
               ELSE pc' = [pc EXCEPT ![r] = "g_wait"] /\ UNCHANGED running
       \/ /\ GenFault(r, Call("messages.list", local[r].thread_id, NoValue, "fault"))
          /\ UNCHANGED events
    /\ UNCHANGED <<endpoint, query, wake, response, now>>

\* the generator is resumed after yielding an update: break out of the for loop
GenResume(r) ==
    /\ pc[r] = "g_yield_update"
    /\ running = NoValue
    /\ pc' = [pc EXCEPT ![r] = "g_wait"]
    /\ running' = r
    /\ UNCHANGED <<endpoint, query, local, wake, events, response, calls, now>>

\* any other status: no branch is taken
GenOther(r) ==
    /\ pc[r] = "g_status"
    /\ running = r
    /\ local[r].run_status \notin {"completed", "in_progress"} \cup FailedStatuses
    /\ pc' = [pc EXCEPT ![r] = "g_wait"]
    /\ UNCHANGED <<endpoint, query, local, wake, events, response, calls, now, running>>

\* await asyncio.sleep(1) at the end of the cycle
GenSleep(r) ==
    /\ pc[r] = "g_wait"
    /\ running = r
    /\ wake' = [wake EXCEPT ![r] = now + PollInterval]
    /\ pc' = [pc EXCEPT ![r] = "g_sleeping"]
    /\ running' = NoValue
    /\ UNCHANGED <<endpoint, query, local, events, response, calls, now>>

-----------------------------------------------------------------------------
(* POST /api/ask: ask_assistant.  The handler holds no await: from its first *)
(* statement to its return or raise it keeps the event-loop thread.          *)

\* the handler ends by raising: except Exception re-raises it as a 500
AskRaise(r, e) ==
    /\ response' = [response EXCEPT ![r] = HandlerExcept(e)]
    /\ local' = [local EXCEPT ![r] = NoFrame]
    /\ pc' = [pc EXCEPT ![r] = "done"]
    /\ running' = NoValue

\* a request arrives at /api/ask and its handler starts: thread_id = query.thread_id
AskRequest(r, tid) ==
    /\ pc[r] = "idle"
    /\ Admitted(r)
    /\ running = NoValue
    /\ pc' = [pc EXCEPT ![r] = "a_thread"]
    /\ endpoint' = [endpoint EXCEPT ![r] = "ask"]
    /\ query' = [query EXCEPT ![r] = [thread_id |-> tid]]
    /\ local' = [local EXCEPT ![r].thread_id = tid]
    /\ running' = r
    /\ UNCHANGED <<wake, events, response, calls, now>>

\* if not thread_id: thread = client.beta.threads.create(); thread_id = thread.id
AskThread(r) ==
    /\ pc[r] = "a_thread"
    /\ running = r
    /\ \/ /\ Falsy(local[r].thread_id)
          /\ local' = [local EXCEPT ![r].thread_id = NewThreadId(r)]
          /\ calls' = [calls EXCEPT ![r] = Append(@, Call("threads.create", NoValue, NoValue, NewThreadId(r)))]
          /\ pc' = [pc EXCEPT ![r] = "a_message"]
          /\ UNCHANGED <<response, running>>
       \/ /\ Falsy(local[r].thread_id)
          /\ calls' = [calls EXCEPT ![r] = Append(@, Call("threads.create", NoValue, NoValue, "fault"))]
          /\ AskRaise(r, UpstreamFault)
       \/ /\ ~Falsy(local[r].thread_id)
          /\ pc' = [pc EXCEPT ![r] = "a_message"]
          /\ UNCHANGED <<local, calls, response, running>>
    /\ UNCHANGED <<endpoint, query, wake, events, now>>

\* client.beta.threads.messages.create(thread_id=thread_id, role="user", content=query.question)
AskMessage(r) ==
    /\ pc[r] = "a_message"
    /\ running = r
    /\ \/ /\ calls' = [calls EXCEPT ![r] = Append(@, Call("messages.create", local[r].thread_id, NoValue, "ok"))]
          /\ pc' = [pc EXCEPT ![r] = "a_run"]
          /\ UNCHANGED <<local, response, running>>
       \/ /\ calls' = [calls EXCEPT ![r] = Append(@, Call("messages.create", local[r].thread_id, NoValue, "fault"))]
          /\ AskRaise(r, UpstreamFault)
    /\ UNCHANGED <<endpoint, query, wake, events, now>>

\* run = client.beta.threads.runs.create(...); start_time = time.time()
AskRun(r) ==
    /\ pc[r] = "a_run"
    /\ running = r
    /\ \/ /\ calls' = [calls EXCEPT ![r] = Append(@, Call("runs.create", local[r].thread_id, NoValue, NewRunId(r)))]
          /\ local' = [local EXCEPT ![r].run_id = NewRunId(r), ![r].start_time = now]
          /\ pc' = [pc EXCEPT ![r] = "a_poll"]
          /\ UNCHANGED <<response, running>>
       \/ /\ calls' = [calls EXCEPT ![r] = Append(@, Call("runs.create", local[r].thread_id, NoValue, "fault"))]
          /\ AskRaise(r, UpstreamFault)
    /\ UNCHANGED <<endpoint, query, wake, events, now>>

\* TimedOut that lets one more wait pass before the loop gives up
TimedOutLate(r) == now - local[r].start_time > Timeout + PollInterval

\* time.time() - start_time > timeout
TimedOut(r) == now - local[r].start_time > Timeout

\* if time.time() - start_time > timeout: raise HTTPException(status_code=504, ...)
AskTimeout(r) ==
    /\ pc[r] = "a_poll"
    /\ running = r
    /\ TimedOut(r)
    /\ AskRaise(r, HTTPException(504, <<"Assistant processing timed out">>))
    /\ UNCHANGED <<endpoint, query, wake, events, calls, now>>

\* run_status = client.beta.threads.runs.retrieve(...) and the branch on its status;
\* a status that is not terminal leads into time.sleep(1)
AskPoll(r) ==
    /\ pc[r] = "a_poll"
    /\ running = r
    /\ ~TimedOut(r)
    /\ TotalPolls < PollBudget
    /\ \/ \E s \in Statuses :
            /\ calls' = [calls EXCEPT ![r] = Append(@, Call("runs.retrieve", local[r].thread_id, local[r].run_id, s))]
            /\ IF s = "completed"
               THEN /\ local' = [local EXCEPT ![r].run_status = s]
                    /\ pc' = [pc EXCEPT ![r] = "a_list"]
                    /\ UNCHANGED <<response, running, wake>>
               ELSE IF s \in FailedStatuses
               THEN /\ AskRaise(r, HTTPException(500, <<"Assistant run failed with status: ", s>>))
                    /\ UNCHANGED wake
               ELSE /\ local' = [local EXCEPT ![r].run_status = s]
                    /\ pc' = [pc EXCEPT ![r] = "a_sleeping"]
                    /\ wake' = [wake EXCEPT ![r] = now + PollInterval]
                    /\ UNCHANGED <<response, running>>
       \/ /\ calls' = [calls EXCEPT ![r] = Append(@, Call("runs.retrieve", local[r].thread_id, local[r].run_id, "fault"))]
          /\ AskRaise(r, UpstreamFault)
          /\ UNCHANGED wake
    /\ UNCHANGED <<endpoint, query, events, now>>

\* AskWake without the wait: the loop goes to its next poll at once
AskWakeAtOnce(r) ==
    /\ pc[r] = "a_sleeping"
    /\ running = r
    /\ pc' = [pc EXCEPT ![r] = "a_poll"]
    /\ UNCHANGED <<endpoint, query, local, wake, events, response, calls, now, running>>

\* time.sleep(1) returns; the thread was blocked in it
AskWake(r) ==
    /\ pc[r] = "a_sleeping"
    /\ running = r
    /\ now >= wake[r]
    /\ pc' = [pc EXCEPT ![r] = "a_poll"]
    /\ UNCHANGED <<endpoint, query, local, wake, events, response, calls, now, running>>

\* messages = client.beta.threads.messages.list(thread_id=thread_id)
AskList(r) ==
    /\ pc[r] = "a_list"
    /\ running = r
    /\ \/ \E data \in Listings :
            /\ local' = [local EXCEPT ![r].messages = data]
            /\ calls' = [calls EXCEPT ![r] = Append(@, Call("messages.list", local[r].thread_id, NoValue, "ok"))]
            /\ pc' = [pc EXCEPT ![r] = "a_extract"]
            /\ UNCHANGED <<response, running>>
       \/ /\ calls' = [calls EXCEPT ![r] = Append(@, Call("messages.list", local[r].thread_id, NoValue, "fault"))]
          /\ AskRaise(r, UpstreamFault)
    /\ UNCHANGED <<endpoint, query, wake, events, now>>

\* the scan of messages.data, and return AssistantResponse(...) or the raise
AskExtract(r) ==
    /\ pc[r] = "a_extract"
    /\ running = r
    /\ response' = [response EXCEPT ![r] =
                        AskOutcome(local[r].messages, local[r].thread_id, local[r].run_id)]
    /\ local' = [local EXCEPT ![r] = NoFrame]
    /\ pc' = [pc EXCEPT ![r] = "done"]
    /\ running' = NoValue
    /\ UNCHANGED <<endpoint, query, wake, events, calls, now>>

-----------------------------------------------------------------------------
(* Time *)

\* request r is in a sleep(1) that is not over yet
Sleeping(r) == pc[r] \in {"g_sleeping", "a_sleeping"} /\ now < wake[r]

\* ask_assistant is between two polls of its timed loop
Timed(r) == pc[r] = "a_sleeping"

\* a time unit passes while a request sleeps
Tick ==
    /\ \E r \in Requests : Sleeping(r)
    /\ now + PollInterval <= MaxClock
    /\ now' = now + PollInterval
    /\ UNCHANGED <<pc, endpoint, query, local, wake, events, response, calls, running>>

\* the time between two polls of ask_assistant is long: the retrieve call was slow,
\* the sleep lasted longer than asked
LongTick ==
    /\ \E r \in Requests : Timed(r)
    /\ now + LongWait <= MaxClock
    /\ now' = now + LongWait
    /\ UNCHANGED <<pc, endpoint, query, local, wake, events, response, calls, running>>

-----------------------------------------------------------------------------

\* the steps of request r
Step(r) ==
    \/ \E tid \in SuppliedThreadIds : StreamRequest(r, tid)
    \/ StreamThread(r)
    \/ StreamMessage(r)
    \/ StreamRun(r)
    \/ GenInitialSleep(r)
    \/ GenWake(r)
    \/ GenPoll(r)
    \/ GenCompleted(r)
    \/ GenFailed(r)
    \/ GenBreak(r)
    \/ GenInProgress(r)
    \/ GenResume(r)
    \/ GenOther(r)
    \/ GenSleep(r)
    \/ \E tid \in SuppliedThreadIds : AskRequest(r, tid)
    \/ AskThread(r)
    \/ AskMessage(r)
    \/ AskRun(r)
    \/ AskTimeout(r)
    \/ AskPoll(r)
    \/ AskWake(r)
    \/ AskList(r)
    \/ AskExtract(r)

\* one request is served
Next ==
    \/ Step("r1")
    \/ Tick
    \/ LongTick

Spec == Init /\ [][Next]_vars

\* two requests overlap on the event loop
NextConcurrent ==
    \/ \E r \in Requests : Step(r)
    \/ Tick
    \/ LongTick

SpecConcurrent == Init /\ [][NextConcurrent]_vars

\* the steps of request r when it is a request to /api/ask
AskStep(r) ==
    \/ \E tid \in SuppliedThreadIds : AskRequest(r, tid)
    \/ AskThread(r)
    \/ AskMessage(r)
    \/ AskRun(r)
    \/ AskTimeout(r)
    \/ AskPoll(r)
    \/ AskWake(r)
    \/ AskList(r)
    \/ AskExtract(r)

\* one request to /api/ask is served
NextAsk ==
    \/ AskStep("r1")
    \/ Tick
    \/ LongTick

\* the handler of the request keeps running and the time of a pending sleep(1) passes
SpecAskFair == Init /\ [][NextAsk]_vars /\ WF_vars(AskStep("r1")) /\ WF_vars(Tick)

-----------------------------------------------------------------------------
(* Vocabulary of the properties *)

Stream(r) == endpoint[r] = "ask-stream"
Ask(r) == endpoint[r] = "ask"
Last(seq) == seq[Len(seq)]
Terminal(e) == e.type \in {"done", "error"}
HasPart(seq, part) == \E i \in 1..Len(seq) : seq[i] = part
StreamEnded(r) == pc[r] \in {"closed", "aborted"}
PolledStatuses(r) == [i \in 1..Len(Polls(r)) |-> Polls(r)[i].result]
SetupOps == {"threads.create", "messages.create", "runs.create"}
PollOps == {"runs.retrieve", "messages.list"}
Faulted(r, ops) == \E i \in 1..Len(calls[r]) : calls[r][i].op \in ops /\ calls[r][i].result = "fault"

-----------------------------------------------------------------------------
(* C1 *)

\* C1: in streaming mode, whatever the service returns, the Events of a request are
\* update Events followed by exactly one terminal Event (done or error): no Event
\* follows the terminal one, and a stream that has ended holds its terminal Event.
C1_ExactlyOneTerminalEvent ==
    \A r \in Requests : Stream(r) =>
        /\ \A i \in 1..Len(events[r]) : Terminal(events[r][i]) => i = Len(events[r])
        /\ StreamEnded(r) => (events[r] # << >> /\ Terminal(Last(events[r])))

-----------------------------------------------------------------------------
(* C2 *)

\* C2: in sync mode, when the handler finds the elapsed time above the timeout the
\* caller receives status 504, and every other failure is received as 500.
C2_TimeoutIs504 ==
    [][\A r \in Requests :
        (Ask(r) /\ pc[r] # "done" /\ pc'[r] = "done" /\ response'[r].status_code # 200) =>
            IF pc[r] = "a_poll" /\ TimedOut(r)
            THEN response'[r].status_code = 504
            ELSE response'[r].status_code = 500]_vars

-----------------------------------------------------------------------------
(* C3 *)

NoContentPlaceholder == <<"No content in assistant response">>

\* the generator has just yielded the terminal Event of a completed run
YieldedCompleted(r) ==
    Stream(r) /\ pc[r] = "g_yield_terminal" /\ local[r].run_status = "completed"

\* C3 as stated: when the run is completed and the listing fetched in that cycle
\* holds no assistant-role message, the terminal Event is a done Event carrying the
\* fixed placeholder and the conversation and run handles.
C3_NoAssistantIsDone ==
    \A r \in Requests :
        (YieldedCompleted(r) /\ \A i \in 1..Len(local[r].messages) :
                                    local[r].messages[i].role # "assistant") =>
            Last(events[r]) = Event("done", NoContentPlaceholder, local[r].thread_id, local[r].run_id)

\* C3 amended: when the run is completed and the listing fetched in that cycle holds
\* no assistant-role message, the terminal Event is the error Event "No assistant
\* response found", without handles; the done Event with the fixed placeholder and
\* the handles is the one yielded when the first assistant-role message of the
\* listing has an empty content list.
C3_NoAssistantIsError ==
    \A r \in Requests : YieldedCompleted(r) =>
        LET data == local[r].messages
            assistants == {i \in 1..Len(data) : data[i].role = "assistant"}
        IN  /\ assistants = {} =>
                Last(events[r]) = Event("error", <<"No assistant response found">>, NoValue, NoValue)
            /\ (assistants # {} /\
                data[CHOOSE i \in assistants : \A j \in assistants : i <= j].content = << >>) =>
                Last(events[r]) = Event("done", NoContentPlaceholder, local[r].thread_id, local[r].run_id)

\* a completed run whose listing holds messages but none of the assistant
C3_Witness ==
    \E r \in Requests :
        /\ YieldedCompleted(r)
        /\ local[r].messages = <<UserMessage>>
        /\ Last(events[r]).type = "error"

-----------------------------------------------------------------------------
(* C4 *)

\* C4: in streaming mode, when a run-status retrieval or a message listing of the
\* poll loop faults, the stream ends with a single error Event that carries the
\* fault description; the stream never ends without a terminal Event.
C4_PollFaultEmitsError ==
    \A r \in Requests : (Stream(r) /\ StreamEnded(r)) =>
        /\ events[r] # << >> /\ Terminal(Last(events[r]))
        /\ Faulted(r, PollOps) =>
              /\ Last(events[r]) = Event("error", Str(UpstreamFault), NoValue, NoValue)
              /\ Cardinality({i \in 1..Len(events[r]) : events[r][i].type = "error"}) = 1

-----------------------------------------------------------------------------
(* C5 *)

\* request r has polled and is in the sleep(1) before its next poll
WaitingBetweenPolls(r) == pc[r] \in {"g_sleeping", "a_sleeping"} /\ Polls(r) # << >>

\* the task of request q is suspended and ready to be resumed by the event loop
Ready(q) ==
    \/ pc[q] \in {"g_start", "g_yield_update", "g_yield_terminal"}
    \/ pc[q] = "g_sleeping" /\ now >= wake[q]

\* C5: the wait between two polls of a request, sync or streaming, suspends only
\* that request's task: while it waits, every other request whose task is ready
\* can take its next step.
C5_WaitSuspendsOnlyItsTask ==
    \A r \in Requests : \A q \in Requests \ {r} :
        (WaitingBetweenPolls(r) /\ Ready(q)) => ENABLED Step(q)

-----------------------------------------------------------------------------
(* C6 *)

SuppliedNoHandle(r) == endpoint[r] # NoValue /\ query[r].thread_id \in {NoValue, ""}
SuppliedHandle(r) == endpoint[r] # NoValue /\ query[r].thread_id \notin {NoValue, ""}
CallsOf(r, op) == {i \in 1..Len(calls[r]) : calls[r][i].op = op}

\* C6: for a request without a conversation handle, sync or streaming, the calls
\* start with create-Conversation, append-Message, create-Run in this order, each
\* made at most once; when a run status is polled all three have been made, and
\* no Conversation or Run is created after them.
C6_SetupOncePerRequest ==
    \A r \in Requests : SuppliedNoHandle(r) =>
        /\ \A i \in 1..Len(calls[r]) :
              /\ calls[r][i].op = "threads.create" <=> i = 1
              /\ calls[r][i].op = "messages.create" <=> i = 2
              /\ calls[r][i].op = "runs.create" <=> i = 3
        /\ CallsOf(r, "runs.retrieve") # {} =>
              /\ Len(calls[r]) > 3
              /\ \A i \in 1..3 : calls[r][i].result # "fault"

\* a request without a handle, of either endpoint, that has polled twice
C6_Witness ==
    \E r \in Requests :
        /\ SuppliedNoHandle(r)
        /\ Cardinality(CallsOf(r, "runs.retrieve")) >= 2
        /\ Cardinality(CallsOf(r, "threads.create")) = 1

-----------------------------------------------------------------------------
(* C7 *)

\* C7: for a request with an existing conversation handle, sync or streaming, no
\* Conversation is created, every call to the service names the supplied handle,
\* and the handle in the sync response and in the done Event is the supplied one.
C7_SuppliedHandleKept ==
    \A r \in Requests : SuppliedHandle(r) =>
        /\ \A i \in 1..Len(calls[r]) :
              /\ calls[r][i].op # "threads.create"
              /\ calls[r][i].thread = query[r].thread_id
        /\ response[r].status_code = 200 /\ Ask(r) => response[r].thread_id = query[r].thread_id
        /\ \A i \in 1..Len(events[r]) :
              events[r][i].type = "done" => events[r][i].thread_id = query[r].thread_id

\* a sync request with a supplied handle has answered 200 after a listing
C7_Witness ==
    \E r \in Requests :
        /\ SuppliedHandle(r) /\ Ask(r)
        /\ response[r].status_code = 200
        /\ CallsOf(r, "messages.list") # {}

-----------------------------------------------------------------------------
(* C8 *)

\* the run handle the service returned to request r on create-Run
CreatedRun(r) == calls[r][CHOOSE i \in CallsOf(r, "runs.create") : TRUE].result

\* the polls of request r returned queued, in_progress, completed
RanToCompletion(r) == PolledStatuses(r) = <<"queued", "in_progress", "completed">>

\* C8: in sync mode, when the polls return queued, in_progress, completed and the
\* listing fetched after completion has an assistant-role message whose content has
\* a first text block, the handler answers 200 with the text of the first block of
\* the first such message in listing order, the conversation handle and the handle
\* of the run created for the request.
C8_SyncReturnsFirstAssistantText ==
    [][\A r \in Requests :
        (Ask(r) /\ RanToCompletion(r) /\ pc[r] = "a_extract" /\ pc'[r] = "done") =>
            LET data == local[r].messages
                assistants == {i \in 1..Len(data) : data[i].role = "assistant"}
                first == CHOOSE i \in assistants : \A j \in assistants : i <= j
            IN  (assistants # {} /\ data[first].content # << >>
                    /\ data[first].content[1].type = "text") =>
                    /\ response'[r].status_code = 200
                    /\ response'[r].response = data[first].content[1].value
                    /\ response'[r].thread_id = calls[r][Len(calls[r])].thread
                    /\ response'[r].run_id = CreatedRun(r)]_vars

\* a sync request has answered 200 after queued, in_progress, completed
C8_Witness ==
    \E r \in Requests :
        /\ Ask(r) /\ RanToCompletion(r)
        /\ pc[r] = "done"
        /\ response[r].status_code = 200
        /\ response[r].response = "b"

-----------------------------------------------------------------------------
(* C9 *)

\* C9: when a poll returns failed, cancelled or expired, it is the last call of the
\* request (no further poll, no listing); the sync handler has then failed with
\* status 500 and a detail that contains the status name; the generator yields one
\* error Event whose content contains the status name, as the only terminal Event
\* and the last Event, and the stream closes.
C9_FailedRunEndsRequest ==
    \A r \in Requests : \A i \in 1..Len(calls[r]) :
        (calls[r][i].op = "runs.retrieve" /\ calls[r][i].result \in FailedStatuses) =>
            /\ i = Len(calls[r])
            /\ Ask(r) =>
                  /\ pc[r] = "done"
                  /\ response[r].status_code = 500
                  /\ HasPart(response[r].detail, calls[r][i].result)
            /\ Stream(r) =>
                  /\ pc[r] \in {"g_status", "g_yield_terminal", "closed"}
                  /\ pc[r] # "g_status" =>
                        /\ events[r] # << >>
                        /\ Last(events[r]).type = "error"
                        /\ HasPart(Last(events[r]).content, calls[r][i].result)
                        /\ \A k \in 1..(Len(events[r]) - 1) : events[r][k].type = "update"

\* a stream has closed on a failed run after an update
C9_Witness ==
    \E r \in Requests :
        /\ Stream(r) /\ pc[r] = "closed"
        /\ Len(events[r]) = 2
        /\ HasPart(Last(events[r]).content, "expired")

-----------------------------------------------------------------------------
(* C10 *)

\* C10: in streaming mode, when conversation creation, message append or run
\* creation faults, the faulting call is the last call of the request (no later
\* setup step, no poll) and the response is a stream of exactly one Event, of type
\* error, carrying the fault description.
C10_SetupFaultIsOneErrorEvent ==
    \A r \in Requests : \A i \in 1..Len(calls[r]) :
        (Stream(r) /\ calls[r][i].op \in SetupOps /\ calls[r][i].result = "fault") =>
            /\ i = Len(calls[r])
            /\ CallsOf(r, "runs.retrieve") = {}
            /\ pc[r] = "closed"
            /\ response[r].status_code = 200
            /\ Len(events[r]) = 1
            /\ events[r][1].type = "error"
            /\ events[r][1].content = UpstreamFault.detail

\* a streaming request whose create-Run call faulted
C10_Witness ==
    \E r \in Requests :
        /\ Stream(r)
        /\ Len(calls[r]) = 3
        /\ calls[r][3].op = "runs.create" /\ calls[r][3].result = "fault"
        /\ Len(events[r]) = 1

-----------------------------------------------------------------------------
(* C11 *)

\* time.time() - start_time, as the timed loop of request r would compute it now
Elapsed(r) == now - local[r].start_time

TimeoutText == "Assistant processing timed out"

\* C11: in sync mode a run-status poll is made only while the elapsed time is at
\* most the 60-unit timeout; when the loop finds the elapsed time above it, the very
\* next step of the handler ends the request with the timeout failure and makes no
\* service call (no poll, no listing), and no call is made once the request is over.
C11_NoPollAfterTimeout ==
    [][\A r \in Requests : Ask(r) =>
        /\ (Len(calls'[r]) > Len(calls[r]) /\ Last(calls'[r]).op = "runs.retrieve") =>
                Elapsed(r) <= Timeout
        /\ (pc[r] = "a_poll" /\ Elapsed(r) > Timeout /\ pc'[r] # pc[r]) =>
                /\ pc'[r] = "done"
                /\ calls'[r] = calls[r]
                /\ response'[r].status_code # 200
                /\ HasPart(response'[r].detail, TimeoutText)
        /\ pc[r] = "done" => (calls'[r] = calls[r] /\ pc'[r] = "done")]_vars

\* a sync request has polled twice and has ended with the timeout failure, found
\* 61 units after the start of its loop
C11_Witness ==
    \E r \in Requests :
        /\ Ask(r) /\ pc[r] = "done"
        /\ PolledStatuses(r) = <<"queued", "in_progress">>
        /\ HasPart(response[r].detail, TimeoutText)
        /\ now = Timeout + PollInterval

-----------------------------------------------------------------------------
(* C12 *)

\* the first assistant-role message of the listing the generator of r holds
FirstAssistantMessage(r) == local[r].messages[FirstAssistant(local[r].messages)]

\* the generator of r has yielded for a completed run whose listing holds an
\* assistant-role message
YieldedForAssistant(r) == YieldedCompleted(r) /\ FirstAssistant(local[r].messages) # 0

\* what ask_assistant would answer on the listing the generator of r holds
SyncAnswer(r) == AskOutcome(local[r].messages, local[r].thread_id, local[r].run_id)

\* C12 as stated: on a completed run the generator reads the text by the rule of
\* sync mode, so whenever the first content block of the first assistant-role
\* message cannot be read (an empty content list included) the terminal Event is
\* of type error, never done.
C12_UnreadableIsError ==
    \A r \in Requests : YieldedForAssistant(r) =>
        LET content == FirstAssistantMessage(r).content IN
        (content = << >> \/ content[1].type # "text") => Last(events[r]).type = "error"

\* C12 amended: on a completed run whose listing holds an assistant-role message,
\* the generator and sync mode agree when the first content block of the first such
\* message is there: a text block gives a done Event with the text sync mode would
\* return, a block that is not text gives an error Event where sync mode fails.
\* They differ on an empty content list: sync mode fails, the generator yields a
\* done Event with the fixed placeholder and the handles.
C12_UnreadableBlockIsError ==
    \A r \in Requests : YieldedForAssistant(r) =>
        LET content == FirstAssistantMessage(r).content
            last == Last(events[r])
        IN  /\ (content # << >> /\ content[1].type = "text") =>
                  /\ SyncAnswer(r).status_code = 200
                  /\ last = Event("done", <<SyncAnswer(r).response>>,
                                  local[r].thread_id, local[r].run_id)
            /\ (content # << >> /\ content[1].type # "text") =>
                  /\ SyncAnswer(r).status_code = 500
                  /\ last.type = "error"
                  /\ last.content[1] = "Error extracting content: "
            /\ content = << >> =>
                  /\ SyncAnswer(r).status_code = 500
                  /\ last = Event("done", NoContentPlaceholder,
                                  local[r].thread_id, local[r].run_id)

\* a completed run whose first assistant-role message holds a block that is not text
C12_Witness ==
    \E r \in Requests :
        /\ YieldedForAssistant(r)
        /\ FirstAssistantMessage(r).content = <<ImageBlock>>
        /\ Last(events[r]).type = "error"

-----------------------------------------------------------------------------
(* C13 *)

\* the number of run-status polls in a call log
PollCount(log) == Len(SelectSeq(log, LAMBDA c : c.op = "runs.retrieve"))

\* request r has a run and is served by the generator
Generating(r) ==
    Stream(r) /\ \E i \in CallsOf(r, "runs.create") : calls[r][i].result # "fault"

\* the update Event for listing data: the text of the first block of the first
\* assistant-role message when it is a text block, no Event otherwise
ExpectedUpdates(data) ==
    LET assistants == {i \in 1..Len(data) : data[i].role = "assistant"}
        first == CHOOSE i \in assistants : \A j \in assistants : i <= j
    IN  IF assistants # {} /\ data[first].content # << >> /\ data[first].content[1].type = "text"
        THEN <<Event("update", <<data[first].content[1].value>>, NoValue, NoValue)>>
        ELSE << >>

\* C13: in streaming mode a poll cycle emits at most one Event.  A cycle that
\* observes in_progress lists the messages once and, when the listing is returned,
\* emits one update Event with the text of the first assistant-role message in
\* listing order if that text can be read, and nothing otherwise; a cycle that
\* observes another non-terminal status lists nothing and emits nothing; in both
\* cases the generator then waits PollInterval and polls again, not earlier.
C13_OneEventPerCycle ==
    [][\A r \in Requests : Generating(r) =>
        /\ Len(events'[r]) <= PollCount(calls'[r])
        /\ Len(events'[r]) <= Len(events[r]) + 1
        /\ (pc[r] = "g_status" /\ pc'[r] # "g_status" /\ local[r].run_status = "in_progress") =>
              /\ Len(calls'[r]) = Len(calls[r]) + 1
              /\ Last(calls'[r]).op = "messages.list"
              /\ Last(calls'[r]).result # "fault" =>
                    /\ events'[r] = events[r] \o ExpectedUpdates(local'[r].messages)
                    /\ pc'[r] \in {"g_yield_update", "g_wait"}
        /\ (pc[r] = "g_status" /\ pc'[r] # "g_status"
                /\ local[r].run_status \in NonTerminalStatuses \ {"in_progress"}) =>
              /\ calls'[r] = calls[r]
              /\ events'[r] = events[r]
              /\ pc'[r] = "g_wait"
        /\ (pc[r] = "g_yield_update" /\ pc'[r] # pc[r]) =>
              (pc'[r] = "g_wait" /\ calls'[r] = calls[r] /\ events'[r] = events[r])
        /\ (pc[r] = "g_wait" /\ pc'[r] # pc[r]) =>
              /\ pc'[r] = "g_sleeping"
              /\ wake'[r] = now + PollInterval
              /\ calls'[r] = calls[r] /\ events'[r] = events[r]
        /\ (pc[r] = "g_sleeping" /\ pc'[r] # pc[r]) =>
              /\ pc'[r] = "g_poll"
              /\ now >= wake[r]
              /\ calls'[r] = calls[r] /\ events'[r] = events[r]]_vars

\* after a cycle that saw in_progress and emitted an update and a cycle that saw
\* queued, the generator is polling again
C13_Witness ==
    \E r \in Requests :
        /\ Generating(r) /\ pc[r] = "g_poll"
        /\ PolledStatuses(r) = <<"in_progress", "queued">>
        /\ Len(events[r]) = 1 /\ events[r][1].type = "update"
        /\ Cardinality(CallsOf(r, "messages.list")) = 1
        /\ now >= 3

-----------------------------------------------------------------------------
(* C14 *)

\* the generator of r has just yielded an update on a reused conversation, from a
\* listing that starts, most recent first, with the question of the request
YieldedUpdateOnReused(r) ==
    /\ Stream(r) /\ SuppliedHandle(r)
    /\ pc[r] = "g_yield_update"
    /\ local[r].messages[1] = UserMessage

\* C14: for a streaming request on a reused conversation, the message whose text an
\* update Event carries was produced by the run of the request; an assistant-role
\* message left by an earlier run is never emitted as an update.
C14_UpdatesFromCurrentRun ==
    \A r \in Requests : YieldedUpdateOnReused(r) =>
        /\ FirstAssistantMessage(r).run = "current"
        /\ Last(events[r]).content # <<"old">>

-----------------------------------------------------------------------------
(* C15 *)

TerminalStatuses == {"completed"} \cup FailedStatuses

\* the last poll of request r observed a terminal status
ObservedTerminal(r) ==
    Polls(r) # << >> /\ Last(PolledStatuses(r)) \in TerminalStatuses

\* C15: the poll loop of the generator ends if and only if a poll observes a
\* terminal status.  While no terminal status has been observed the generator is
\* still looping and has emitted no terminal Event; once a poll has observed one
\* and the generator has gone on from it, a terminal Event has been emitted, and
\* the stream closes on it.
C15_LoopEndsOnTerminalStatus ==
    \A r \in Requests : Generating(r) =>
        /\ ~ObservedTerminal(r) =>
              /\ ~StreamEnded(r)
              /\ \A i \in 1..Len(events[r]) : ~Terminal(events[r][i])
        /\ (ObservedTerminal(r) /\ pc[r] # "g_status") =>
              /\ pc[r] \in {"g_yield_terminal", "closed"}
              /\ events[r] # << >> /\ Terminal(Last(events[r]))

-----------------------------------------------------------------------------
(* C16 *)

NoResponseTexts == {"No response from assistant", "No assistant response found"}

\* C16: in sync mode, when the listing fetched after completion holds no
\* assistant-role message (an empty listing included), the handler fails with
\* status 500 and the no-response detail and returns no text; a sync request is
\* answered 200 only from a fetched listing, with the text of a first text block of
\* an assistant-role message of that listing.
C16_NoAssistantIsNoResponse ==
    [][\A r \in Requests : (Ask(r) /\ pc[r] # "done" /\ pc'[r] = "done") =>
        LET data == local[r].messages
            assistants == {i \in 1..Len(data) : data[i].role = "assistant"}
        IN  /\ (pc[r] = "a_extract" /\ assistants = {}) =>
                  /\ response'[r].status_code = 500
                  /\ response'[r].response = NoValue
                  /\ \E t \in NoResponseTexts : HasPart(response'[r].detail, t)
            /\ response'[r].status_code = 200 =>
                  /\ pc[r] = "a_extract"
                  /\ \E i \in assistants :
                        /\ data[i].content # << >>
                        /\ data[i].content[1].type = "text"
                        /\ response'[r].response = data[i].content[1].value]_vars

\* a sync request whose run completed has failed for want of an assistant-role message
C16_Witness ==
    \E r \in Requests :
        /\ Ask(r) /\ pc[r] = "done"
        /\ Polls(r) # << >> /\ Last(PolledStatuses(r)) = "completed"
        /\ response[r].status_code = 500
        /\ response[r].response = NoValue
        /\ HasPart(response[r].detail, "No assistant response found")

-----------------------------------------------------------------------------
(* C17 *)

\* the timed loop of r is about to poll, but polls are followed no further
OutOfBudget(r) ==
    pc[r] = "a_poll" /\ Elapsed(r) <= Timeout /\ TotalPolls >= PollBudget

\* C17: every sync request ends, with a response or a failure, whatever statuses
\* the service returns.  Its polls are at least a time unit apart and none is made
\* after the timeout, so the k-th poll is made at an elapsed time between k - 1 and
\* the timeout and there are at most Timeout + 1 of them; no poll follows a poll
\* that observed a terminal status; and while time passes during its waits the
\* request goes on to its end (as far as its polls are followed).
C17_SyncTerminates ==
    /\ [][\A r \in Requests :
            (Ask(r) /\ PollCount(calls'[r]) > PollCount(calls[r])) =>
                /\ PollCount(calls[r]) <= Elapsed(r)
                /\ Elapsed(r) <= Timeout
                /\ PollCount(calls'[r]) <= Timeout + 1
                /\ \A i \in 1..Len(Polls(r)) : Polls(r)[i].result \in NonTerminalStatuses]_vars
    /\ \A r \in {"r1"} : Ask(r) ~> (pc[r] = "done" \/ OutOfBudget(r))

\* a sync request has ended after three polls, each a wait after the one before
C17_Witness ==
    \E r \in Requests :
        /\ Ask(r) /\ pc[r] = "done"
        /\ Len(Polls(r)) = MaxPolls
        /\ Last(PolledStatuses(r)) \in TerminalStatuses
        /\ now >= MaxPolls - 1

=============================================================================
